---------------------------- MODULE Spec2Model ----------------------------
(***************************************************************************)
(* State-machine model of src/src/main.rs: dungeon generation (make_map,   *)
(* place_objects), the game loop of main (render_all, handle_keys) and the *)
(* movement resolver (move_by, is_blocked).                                *)
(*                                                                         *)
(* The grid and room sizes are scaled down from the source's 80 x 45 so    *)
(* that every outcome of the random draws can be enumerated.               *)
(***************************************************************************)
EXTENDS Integers, Sequences, FiniteSets, TLC

(* ------------------------------ sizes --------------------------------- *)
\* main.rs:9  (80 in the source, scaled)
MAP_WIDTH == 8
\* main.rs:10 (45 in the source, scaled)
MAP_HEIGHT == 4
\* main.rs:27 (10 in the source, scaled)
ROOM_MAX_SIZE == 2
\* main.rs:28 (6 in the source, scaled)
ROOM_MIN_SIZE == 2
\* main.rs:29 (30 in the source, scaled)
MAX_ROOMS == 3
\* main.rs:30 (3 in the source, scaled)
MAX_ROOM_MONSTERS == 2
\* main.rs:34 (10 in the source, scaled)
TORCH_RADIUS == 2
\* main.rs:33
FOV_LIGHT_WALLS == TRUE
\* main.rs:35
PLAYER == 0

\* The source's own sizes, used where a step is checked at full scale.
\* main.rs:9
SRC_MAP_WIDTH == 80
\* main.rs:10
SRC_MAP_HEIGHT == 45
\* main.rs:27
SRC_ROOM_MAX_SIZE == 10
\* main.rs:28
SRC_ROOM_MIN_SIZE == 6

VARIABLES
    pc,                        \* position of main: "make_map", "render", "keys", "done",
                               \* "panic"; "start" / "started" for StartRoom
    map,                       \* game.map / the local map of make_map: tile -> Tile
    objects,                   \* the objects vector: 0..n-1 -> Object
    rooms,                     \* make_map's local rooms vector
    attempt,                   \* make_map's loop counter (for _ in 0..MAX_ROOMS)
    accepted,                  \* is_valid_location of every loop iteration so far
    samples,                   \* the (x, y) drawn by the latest place_objects call
    fovmap,                    \* tcod.fov: the transparent / walkable flags given to set
    fov,                       \* tcod.fov: the tiles for which is_in_fov is true
    previous_player_position,  \* main's local of that name
    fov_recompute,             \* main's local of that name, latest tick
    key,                       \* handle_keys' local key, latest tick
    tick_pos                   \* history: the player's position at the previous tick's render

vars == <<pc, map, objects, rooms, attempt, accepted, samples, fovmap, fov,
          previous_player_position, fov_recompute, key, tick_pos>>

(* ------------------------------ Tile ---------------------------------- *)
Tiles == (0 .. MAP_WIDTH - 1) \X (0 .. MAP_HEIGHT - 1)

TileEmpty == [blocked |-> FALSE, block_site |-> FALSE, explored |-> FALSE]

TileWall == [blocked |-> TRUE, block_site |-> TRUE, explored |-> FALSE]

(* ------------------------------ Object -------------------------------- *)
ObjectNew(x, y, char, name, color, blocks) ==
    [x |-> x, y |-> y, char |-> char, color |-> color, name |-> name,
     alive |-> FALSE, blocks |-> blocks]

Pos(o) == <<o.x, o.y>>

SetPos(o, x, y) == [o EXCEPT !.x = x, !.y = y]

NumObjects(objs) == Cardinality(DOMAIN objs)

\* Vec::push on the objects vector
Push(objs, o) ==
    [k \in 0 .. NumObjects(objs) |-> IF k < NumObjects(objs) THEN objs[k] ELSE o]

(* ------------------------------ Rect ---------------------------------- *)
RectNew(x, y, w, h) == [x1 |-> x, y1 |-> y, x2 |-> x + w, y2 |-> y + h]

CenterOfSize(r) == <<(r.x2 - r.x1) \div 2, (r.y2 - r.y1) \div 2>>

Center(r) == <<(r.x1 + r.x2) \div 2, (r.y1 + r.y2) \div 2>>

IntersectsWithStrict(a, b) ==
    /\ (a.x1 < b.x2) /\ (a.x2 > b.x1)
    /\ (a.y1 < b.y2) /\ (a.y2 > b.y1)

IntersectsWith(a, b) ==
    /\ (a.x1 <= b.x2) /\ (a.x2 >= b.x1)
    /\ (a.y1 <= b.y2) /\ (a.y2 >= b.y1)

Min(a, b) == IF a < b THEN a ELSE b

Max(a, b) == IF a > b THEN a ELSE b

(* ----------------------------- carving -------------------------------- *)
CreateRoomInclusive(room, m) ==
    [t \in Tiles |->
        IF /\ room.x1 <= t[1] /\ t[1] <= room.x2
           /\ room.y1 <= t[2] /\ t[2] <= room.y2
        THEN TileEmpty ELSE m[t]]

CreateRoom(room, m) ==
    [t \in Tiles |->
        IF /\ room.x1 + 1 <= t[1] /\ t[1] < room.x2
           /\ room.y1 + 1 <= t[2] /\ t[2] < room.y2
        THEN TileEmpty ELSE m[t]]

CreateHTunnelWall(x1, x2, y, m) ==
    [t \in Tiles |->
        IF t[2] = y /\ Min(x1, x2) <= t[1] /\ t[1] < Max(x1, x2) + 1
        THEN TileWall ELSE m[t]]

CreateHTunnel(x1, x2, y, m) ==
    [t \in Tiles |->
        IF t[2] = y /\ Min(x1, x2) <= t[1] /\ t[1] < Max(x1, x2) + 1
        THEN TileEmpty ELSE m[t]]

CreateVTunnelLong(y1, y2, x, m) ==
    [t \in Tiles |->
        IF t[1] = x /\ Min(y1, y2) - 1 <= t[2] /\ t[2] <= Max(y1, y2) + 1
        THEN TileEmpty ELSE m[t]]

CreateVTunnel(y1, y2, x, m) ==
    [t \in Tiles |->
        IF t[1] = x /\ Min(y1, y2) <= t[2] /\ t[2] < Max(y1, y2) + 1
        THEN TileEmpty ELSE m[t]]

(* ------------------------- collision / spawning ----------------------- *)
IsBlockedTileOnly(x, y, m, objs) == m[<<x, y>>].blocked

IsBlocked(x, y, m, objs) ==
    \/ m[<<x, y>>].blocked
    \/ \E k \in DOMAIN objs : objs[k].blocks /\ Pos(objs[k]) = <<x, y>>

Monster(x, y, orc) ==
    [(IF orc THEN ObjectNew(x, y, "o", "orc", "DESATURATED_GREEN", TRUE)
             ELSE ObjectNew(x, y, "V", "Vampire", "DARK_RED", TRUE))
     EXCEPT !.alive = TRUE]

\* The loop of place_objects over its num_monsters draws: draws[k] is the
\* k-th sampled (x, y), orcs[k] the outcome of the 80% roll.
RECURSIVE PlaceLoop(_, _, _, _, _)
PlaceLoop(draws, orcs, k, m, objs) ==
    IF k > Len(draws) THEN objs
    ELSE LET x == draws[k][1]
             y == draws[k][2]
         IN  PlaceLoop(draws, orcs, k + 1, m,
                       IF ~IsBlocked(x, y, m, objs)
                       THEN Push(objs, Monster(x, y, orcs[k]))
                       ELSE objs)

PlaceObjectsAnywhere(draws, orcs, m, objs) ==
    LET RECURSIVE All(_, _)
        All(k, os) == IF k > Len(draws) THEN os
                      ELSE All(k + 1, Push(os, Monster(draws[k][1], draws[k][2], orcs[k])))
    IN  All(1, objs)

PlaceObjects(draws, orcs, m, objs) == PlaceLoop(draws, orcs, 1, m, objs)

\* The outcomes of place_objects' position draws for a room: num_monsters in
\* 0..MAX_ROOM_MONSTERS, each position in the room's interior.
Draws(room) ==
    UNION {[1 .. n -> (room.x1 + 1 .. room.x2 - 1) \X (room.y1 + 1 .. room.y2 - 1)] :
             n \in 0 .. MAX_ROOM_MONSTERS}

(* ------------------------------ make_map ------------------------------ *)
\* The corridor between the previous entry of rooms and the new room.
Tunnels(prev, new, coin, m) ==
    IF coin
    THEN CreateVTunnel(prev[2], new[2], new[1], CreateHTunnel(prev[1], new[1], prev[2], m))
    ELSE CreateHTunnel(prev[1], new[1], new[2], CreateVTunnel(prev[2], new[2], prev[1], m))

IsValidLocationLastOnly(new_room, rs) ==
    rs = <<>> \/ ~IntersectsWith(new_room, rs[Len(rs)])

IsValidLocation(new_room, rs) ==
    ~ \E k \in 1 .. Len(rs) : IntersectsWith(new_room, rs[k])

\* The loop counter of `for _ in 0..MAX_ROOMS` after an iteration.
NextAttemptOnAccept(a, valid) == IF valid THEN a + 1 ELSE a

NextAttempt(a, valid) == a + 1

Init ==
    /\ pc = "make_map"
    /\ map = [t \in Tiles |-> TileWall]
    /\ objects = [k \in {PLAYER} |->
                    [ObjectNew(0, 0, "@", "player", "WHITE", TRUE) EXCEPT !.alive = TRUE]]
    /\ rooms = <<>>
    /\ attempt = 0
    /\ accepted = <<>>
    /\ samples = <<>>
    /\ fovmap = [t \in Tiles |-> [transparent |-> FALSE, walkable |-> FALSE]]
    /\ fov = {}
    /\ previous_player_position = <<-1, -1>>
    /\ fov_recompute = FALSE
    /\ key = "none"
    /\ tick_pos = <<-1, -1>>

\* One iteration of make_map's loop (main.rs:251-290).
MakeMapIter ==
    /\ pc = "make_map"
    /\ attempt < MAX_ROOMS
    /\ \E w \in ROOM_MIN_SIZE .. ROOM_MAX_SIZE, h \in ROOM_MIN_SIZE .. ROOM_MAX_SIZE :
       \E x \in 0 .. MAP_WIDTH - w - 1, y \in 0 .. MAP_HEIGHT - h - 1 :
         LET new_room == RectNew(x, y, w, h)
             is_valid_location == IsValidLocation(new_room, rooms)
         IN  /\ IF is_valid_location
                THEN \E draws \in Draws(new_room) :
                     \E orcs \in [1 .. Len(draws) -> BOOLEAN] :
                     \E coin \in (IF rooms = <<>> THEN {TRUE} ELSE BOOLEAN) :
                       LET carved == CreateRoom(new_room, map)
                           placed == PlaceObjects(draws, orcs, carved, objects)
                           new    == Center(new_room)
                       IN  /\ samples' = draws
                           /\ IF rooms = <<>>
                              THEN /\ objects' = [placed EXCEPT
                                                    ![PLAYER] = SetPos(@, new[1], new[2])]
                                   /\ map' = carved
                              ELSE /\ objects' = placed
                                   /\ map' = Tunnels(Center(rooms[Len(rooms)]), new,
                                                     coin, carved)
                ELSE /\ samples' = <<>>
                     /\ UNCHANGED <<map, objects>>
             /\ rooms' = Append(rooms, new_room)
             /\ accepted' = Append(accepted, is_valid_location)
             /\ attempt' = NextAttempt(attempt, is_valid_location)
    /\ UNCHANGED <<pc, fovmap, fov, previous_player_position, fov_recompute, key, tick_pos>>

\* make_map returns (its locals are dropped) and main populates the FOV map
\* from the generated map (main.rs:182-199).
MainSetup ==
    /\ pc = "make_map"
    /\ attempt = MAX_ROOMS
    /\ pc' = "render"
    /\ rooms' = <<>>
    /\ accepted' = <<>>
    /\ samples' = <<>>
    /\ attempt' = 0
    /\ fovmap' = [t \in Tiles |->
                    [transparent |-> ~map[t].block_site, walkable |-> ~map[t].blocked]]
    /\ UNCHANGED <<map, objects, fov, previous_player_position, fov_recompute, key, tick_pos>>

(* --------------------------- field of view ---------------------------- *)
Sgn(n) == IF n > 0 THEN 1 ELSE IF n < 0 THEN -1 ELSE 0

\* The ray from (cx, cy) towards (tx, ty) meets no opaque tile before it.
RECURSIVE RayClear(_, _, _, _, _)
RayClear(fm, cx, cy, tx, ty) ==
    LET nx == cx + Sgn(tx - cx)
        ny == cy + Sgn(ty - cy)
    IN  IF <<nx, ny>> = <<tx, ty>> THEN TRUE
        ELSE IF ~fm[<<nx, ny>>].transparent THEN FALSE
        ELSE RayClear(fm, nx, ny, tx, ty)

\* FovMap::compute_fov of the tcod library (ray casting up to a radius, walls
\* lit when light_walls): the tiles for which is_in_fov is true afterwards.
ComputeFov(fm, px, py, radius, light_walls) ==
    {t \in Tiles :
        /\ (t[1] - px) * (t[1] - px) + (t[2] - py) * (t[2] - py) <= radius * radius
        /\ t = <<px, py>> \/ RayClear(fm, px, py, t[1], t[2])
        /\ fm[t].transparent \/ light_walls}

(* ------------------------------ render_all ---------------------------- *)
\* The fov_recompute argument main computes (main.rs:205).
FovRecomputeNever(prev, objs) == FALSE

FovRecompute(prev, objs) == prev # <<objs[PLAYER].x, objs[PLAYER].y>>

\* is_in_fov after the optional recompute (main.rs:297-301).
RenderFov(fm, visible, objs, recompute) ==
    IF recompute
    THEN ComputeFov(fm, objs[PLAYER].x, objs[PLAYER].y, TORCH_RADIUS, FOV_LIGHT_WALLS)
    ELSE visible

\* The explored flags after the tile loop (main.rs:310-332).
MarkExploredOverwrite(m, visible) ==
    [t \in Tiles |-> [m[t] EXCEPT !.explored = (t \in visible)]]

MarkExploredAll(m, visible) ==
    [t \in Tiles |-> [m[t] EXCEPT !.explored = TRUE]]

MarkExplored(m, visible) ==
    [t \in Tiles |-> IF t \in visible THEN [m[t] EXCEPT !.explored = TRUE] ELSE m[t]]

\* The first half of a tick of the game loop (main.rs:202-208).
Render ==
    /\ pc = "render"
    /\ fov_recompute' = FovRecompute(previous_player_position, objects)
    /\ fov' = RenderFov(fovmap, fov, objects, fov_recompute')
    /\ map' = MarkExplored(map, fov')
    /\ pc' = "keys"
    /\ UNCHANGED <<objects, rooms, attempt, accepted, samples, fovmap,
                   previous_player_position, key, tick_pos>>

\* The window was closed: the loop condition fails (main.rs:202).
WindowClosed ==
    /\ pc = "render"
    /\ pc' = "done"
    /\ UNCHANGED <<map, objects, rooms, attempt, accepted, samples, fovmap, fov,
                   previous_player_position, fov_recompute, key, tick_pos>>

(* ------------------------------ move_by ------------------------------- *)
MoveByUnchecked(id, dx, dy, m, objs) ==
    [objs EXCEPT ![id] = SetPos(@, objs[id].x + dx, objs[id].y + dy)]

MoveByRebuild(id, dx, dy, m, objs) ==
    LET x == objs[id].x
        y == objs[id].y
    IN  IF ~IsBlocked(x + dx, y + dy, m, objs)
        THEN [objs EXCEPT ![id] = ObjectNew(x + dx, y + dy, @.char, @.name, @.color, @.blocks)]
        ELSE objs

MoveBy(id, dx, dy, m, objs) ==
    LET x == objs[id].x
        y == objs[id].y
    IN  IF ~IsBlocked(x + dx, y + dy, m, objs)
        THEN [objs EXCEPT ![id] = SetPos(@, x + dx, y + dy)]
        ELSE objs

(* ------------------------------ handle_keys --------------------------- *)
\* A movement key: move_by(PLAYER, dx, dy, map, objects) (main.rs:224-227).
\* Indexing the map outside the grid panics.
HandleMove(k, dx, dy) ==
    /\ key' = k
    /\ IF <<objects[PLAYER].x + dx, objects[PLAYER].y + dy>> \in Tiles
       THEN /\ objects' = MoveBy(PLAYER, dx, dy, map, objects)
            /\ pc' = "render"
       ELSE /\ objects' = objects
            /\ pc' = "panic"
    /\ tick_pos' = Pos(objects[PLAYER])
    /\ UNCHANGED <<map, rooms, attempt, accepted, samples, fovmap, fov,
                   previous_player_position, fov_recompute>>

KeyUp ==
    /\ pc = "keys"
    /\ HandleMove("Up", 0, -1)

KeyDown ==
    /\ pc = "keys"
    /\ HandleMove("Down", 0, 1)

KeyLeft ==
    /\ pc = "keys"
    /\ HandleMove("Left", -1, 0)

KeyRight ==
    /\ pc = "keys"
    /\ HandleMove("Right", 1, 0)

\* Alt+Enter toggles fullscreen, any other key does nothing (main.rs:230-240).
KeyOther ==
    /\ pc = "keys"
    /\ \E k \in {"AltEnter", "Other"} : key' = k
    /\ pc' = "render"
    /\ tick_pos' = Pos(objects[PLAYER])
    /\ UNCHANGED <<map, objects, rooms, attempt, accepted, samples, fovmap, fov,
                   previous_player_position, fov_recompute>>

\* Escape leaves the loop (main.rs:239, 211-213).
KeyEscape ==
    /\ pc = "keys"
    /\ key' = "Escape"
    /\ pc' = "done"
    /\ tick_pos' = Pos(objects[PLAYER])
    /\ UNCHANGED <<map, objects, rooms, attempt, accepted, samples, fovmap, fov,
                   previous_player_position, fov_recompute>>

Next ==
    \/ MakeMapIter
    \/ MainSetup
    \/ Render
    \/ WindowClosed
    \/ KeyUp
    \/ KeyDown
    \/ KeyLeft
    \/ KeyRight
    \/ KeyOther
    \/ KeyEscape

Spec == Init /\ [][Next]_vars

(* ---------------- the first room at the source's scale ---------------- *)
\* The first iteration of make_map with the source's sizes, restricted to the
\* room and the player's position (main.rs:252-258, 268-272, 289): rooms is
\* empty, so the candidate is valid and the player is put at its center.  The
\* grid is not represented at this scale; map keeps its initial value.
InitStart ==
    /\ pc = "start"
    /\ map = [t \in Tiles |-> TileWall]
    /\ objects = [k \in {PLAYER} |->
                    [ObjectNew(0, 0, "@", "player", "WHITE", TRUE) EXCEPT !.alive = TRUE]]
    /\ rooms = <<>>
    /\ attempt = 0
    /\ accepted = <<>>
    /\ samples = <<>>
    /\ fovmap = [t \in Tiles |-> [transparent |-> FALSE, walkable |-> FALSE]]
    /\ fov = {}
    /\ previous_player_position = <<-1, -1>>
    /\ fov_recompute = FALSE
    /\ key = "none"
    /\ tick_pos = <<-1, -1>>

StartRoom ==
    /\ pc = "start"
    /\ \E w \in SRC_ROOM_MIN_SIZE .. SRC_ROOM_MAX_SIZE,
          h \in SRC_ROOM_MIN_SIZE .. SRC_ROOM_MAX_SIZE :
       \E x \in 0 .. SRC_MAP_WIDTH - w - 1, y \in 0 .. SRC_MAP_HEIGHT - h - 1 :
         LET new_room == RectNew(x, y, w, h)
             new      == Center(new_room)
         IN  /\ objects' = [objects EXCEPT ![PLAYER] = SetPos(@, new[1], new[2])]
             /\ rooms' = Append(rooms, new_room)
             /\ accepted' = Append(accepted, IsValidLocation(new_room, rooms))
    /\ attempt' = attempt + 1
    /\ pc' = "started"
    /\ UNCHANGED <<map, samples, fovmap, fov, previous_player_position, fov_recompute,
                   key, tick_pos>>

InitWithStart == Init \/ InitStart

NextWithStart == Next \/ StartRoom

SpecStart == InitWithStart /\ [][NextWithStart]_vars


(* ============================== claims ================================ *)
MoveKeys == {"Up", "Down", "Left", "Right"}

\* Inclusive-bounds overlap of two rectangles, as the claims state it.
Overlap(a, b) ==
    /\ a.x1 <= b.x2 /\ a.x2 >= b.x1
    /\ a.y1 <= b.y2 /\ a.y2 >= b.y1

Adjacent(s, t) ==
    \/ s[1] = t[1] /\ (s[2] = t[2] + 1 \/ s[2] + 1 = t[2])
    \/ s[2] = t[2] /\ (s[1] = t[1] + 1 \/ s[1] + 1 = t[1])

\* The non-blocked tiles reachable from the set S by horizontal / vertical steps.
RECURSIVE Flood(_)
Flood(S) ==
    LET N == S \cup {t \in Tiles : ~map[t].blocked /\ \E u \in S : Adjacent(u, t)}
    IN  IF N = S THEN S ELSE Flood(N)

Blocker(o) == o.blocks /\ o.alive

\* C1: once make_map has returned, every non-blocked tile is reachable from the
\* player's position through horizontally or vertically adjacent non-blocked tiles.
C1_Connected ==
    pc \in {"render", "keys", "done"} =>
        {t \in Tiles : ~map[t].blocked} \subseteq Flood({Pos(objects[PLAYER])})

\* C2: a candidate room is rejected exactly when it overlaps (inclusive bounds) a
\* previously accepted room; rejected candidates take no part in the test.
C2_RejectedIffOverlapsAccepted ==
    \A k \in 1 .. Len(rooms) :
        accepted[k] <=> ~ \E j \in 1 .. k - 1 : accepted[j] /\ Overlap(rooms[k], rooms[j])

\* C3: no two distinct accepted rooms overlap under the inclusive-bounds test,
\* during generation and when make_map's loop has finished.
C3_AcceptedDisjoint ==
    \A j, k \in 1 .. Len(rooms) :
        (j # k /\ accepted[j] /\ accepted[k]) => ~Overlap(rooms[j], rooms[k])

C3_Witness ==
    /\ pc = "make_map"
    /\ attempt = MAX_ROOMS
    /\ Cardinality({k \in 1 .. Len(rooms) : accepted[k]}) >= 2

\* C4: move_by is all-or-nothing: for every occupant and every (dx, dy) in
\* {-1,0,1}^2, the mover stays where it is when the target tile is blocked or
\* another blocking, alive occupant is at the target, and otherwise lands exactly
\* on the target.
C4_AllOrNothing ==
    pc \in {"render", "keys"} =>
        \A id \in DOMAIN objects : \A dx, dy \in -1 .. 1 :
            LET tx == objects[id].x + dx
                ty == objects[id].y + dy
                after == MoveBy(id, dx, dy, map, objects)
                rejected ==
                    \/ map[<<tx, ty>>].blocked
                    \/ \E j \in DOMAIN objects :
                         j # id /\ Blocker(objects[j]) /\ Pos(objects[j]) = <<tx, ty>>
            IN  <<tx, ty>> \in Tiles =>
                    Pos(after[id]) = IF rejected THEN Pos(objects[id]) ELSE <<tx, ty>>

\* The player pressed Right, the tile to the right is floor but holds a monster,
\* and the player stayed where it was.
C4_Witness ==
    /\ pc = "render"
    /\ key = "Right"
    /\ tick_pos = Pos(objects[PLAYER])
    /\ ~map[<<objects[PLAYER].x + 1, objects[PLAYER].y>>].blocked
    /\ \E j \in DOMAIN objects :
          j # PLAYER /\ Pos(objects[j]) = <<objects[PLAYER].x + 1, objects[PLAYER].y>>

\* C5: a move_by call changes nothing but the position of the occupant it is
\* given: tiles, number and order of occupants, the other occupants and the
\* mover's other fields stay as they were.
C5_MoveFrame ==
    [][(pc = "keys" /\ key' \in MoveKeys) =>
        /\ map' = map
        /\ DOMAIN objects' = DOMAIN objects
        /\ \A k \in DOMAIN objects : k # PLAYER => objects'[k] = objects[k]
        /\ [objects'[PLAYER] EXCEPT !.x = objects[PLAYER].x, !.y = objects[PLAYER].y]
             = objects[PLAYER]]_vars

\* A movement key was handled and the player moved.
C5_Witness ==
    /\ pc = "render"
    /\ key \in MoveKeys
    /\ tick_pos # Pos(objects[PLAYER])

\* C6: every monster place_objects adds stands, at the moment it is added, on a
\* non-blocked tile that holds no blocking, alive occupant; a draw that fails the
\* test adds nothing and is not retried.
C6_SpawnFree ==
    [][(pc = "make_map" /\ attempt' = attempt + 1) =>
        LET n    == NumObjects(objects)
            n2   == NumObjects(objects')
            room == rooms'[Len(rooms')]
            AtInsertion(j) == IF j < n THEN objects[j] ELSE objects'[j]
        IN  /\ \A k \in n .. n2 - 1 :
                 LET p == Pos(objects'[k])
                 IN  /\ \/ ~map[p].blocked
                        \/ /\ room.x1 < p[1] /\ p[1] < room.x2
                           /\ room.y1 < p[2] /\ p[2] < room.y2
                     /\ ~map'[p].blocked
                     /\ \A j \in 0 .. k - 1 :
                          ~(Blocker(AtInsertion(j)) /\ Pos(AtInsertion(j)) = p)
                     /\ \E d \in 1 .. Len(samples') : samples'[d] = p
            /\ n2 - n <= Cardinality({samples'[d] : d \in 1 .. Len(samples')})]_vars

\* place_objects drew the same position twice and spawned one monster there.
C6_Witness ==
    /\ pc = "make_map"
    /\ Len(samples) = 2
    /\ samples[1] = samples[2]
    /\ Cardinality({k \in DOMAIN objects : Pos(objects[k]) = samples[1]}) = 1

\* C7: a tile's explored flag, once true, stays true.
C7_ExploredMonotonic ==
    [][\A t \in Tiles : map[t].explored => map'[t].explored]_vars

\* A render has left a tile explored that is outside the current field of view.
C7_Witness ==
    /\ pc = "keys"
    /\ \E t \in Tiles : map[t].explored /\ t \notin fov

\* C8: after every render_all every tile in the field of view is explored, and a
\* tile is only ever marked explored while it is in the field of view (so a tile
\* that was never in a field of view is not explored).
C8_VisibleExplored ==
    /\ \A t \in Tiles : ~map[t].explored
    /\ [](pc = "keys" => \A t \in fov : map[t].explored)
    /\ [][\A t \in Tiles : (map'[t].explored /\ ~map[t].explored) => t \in fov']_vars

C8_Witness ==
    /\ pc = "keys"
    /\ \E t \in fov : map[t].explored
    /\ \E t \in Tiles : t \notin fov /\ ~map[t].explored
    /\ \E t \in Tiles : t \notin fov /\ map[t].explored

\* C9: after the render of a tick on which the player's position differs from its
\* position at the previous render (and of the first tick), the field of view
\* has been recomputed from the player's current position.
C9_FovCurrent ==
    (pc = "keys" /\ tick_pos # Pos(objects[PLAYER])) =>
        /\ fov_recompute
        /\ Pos(objects[PLAYER]) \in fov
        /\ fov = ComputeFov(fovmap, objects[PLAYER].x, objects[PLAYER].y,
                            TORCH_RADIUS, FOV_LIGHT_WALLS)

\* The player moved on the previous tick and this tick's render has run.
C9_Witness ==
    /\ pc = "keys"
    /\ key \in MoveKeys
    /\ tick_pos # Pos(objects[PLAYER])
    /\ fov_recompute

\* C10: on a tick where the player's position is the same as at the previous
\* tick's render, compute_fov is not invoked.
C10_NoRecomputeWhenFresh ==
    (pc = "keys" /\ tick_pos = Pos(objects[PLAYER])) => ~fov_recompute

\* C11: the player's start is the center of the first accepted room and lies
\* strictly inside it, for every room the generator can sample (scaled grid
\* during make_map, and every size and origin of the source's constants).
C11_StartInsideFirstRoom ==
    ((pc = "make_map" /\ Len(rooms) >= 1) \/ pc = "started") =>
        LET r  == rooms[1]
            px == objects[PLAYER].x
            py == objects[PLAYER].y
        IN  /\ accepted[1]
            /\ 2 * px <= r.x1 + r.x2 /\ r.x1 + r.x2 <= 2 * px + 1
            /\ 2 * py <= r.y1 + r.y2 /\ r.y1 + r.y2 <= 2 * py + 1
            /\ r.x1 < px /\ px < r.x2
            /\ r.y1 < py /\ py < r.y2

\* A 7 x 10 room (odd width: the center is rounded down) at the largest origin.
C11_Witness ==
    /\ pc = "started"
    /\ rooms[1].x2 - rooms[1].x1 = 7
    /\ rooms[1].y2 - rooms[1].y1 = 10
    /\ rooms[1].x1 = SRC_MAP_WIDTH - 8
    /\ rooms[1].y1 = SRC_MAP_HEIGHT - 11
    /\ Pos(objects[PLAYER]) = <<rooms[1].x1 + 3, rooms[1].y1 + 5>>

\* The center of a rectangle, as the claims state it.
Mid(r) == <<(r.x1 + r.x2) \div 2, (r.y1 + r.y2) \div 2>>

HRun(xa, xb, y) == {<<x, y>> : x \in (IF xa < xb THEN xa ELSE xb) .. (IF xa < xb THEN xb ELSE xa)}

VRun(ya, yb, x) == {<<x, y>> : y \in (IF ya < yb THEN ya ELSE yb) .. (IF ya < yb THEN yb ELSE ya)}

IsFloorIn(m, S) == \A t \in S : t \in Tiles /\ ~m[t].blocked /\ ~m[t].block_site

IsFloor(S) == IsFloorIn(map, S)

\* The index of the latest accepted room before index n.
PrevAccepted(n) == CHOOSE k \in 1 .. n - 1 :
                      accepted[k] /\ \A j \in k + 1 .. n - 1 : ~accepted[j]

\* C12: when a room other than the first has been accepted, an L-shaped corridor
\* (horizontal run and vertical run meeting at an elbow) joins its center to the
\* center of the immediately preceding accepted room.
C12_CorridorToPrevAccepted ==
    (pc = "make_map" /\ Len(rooms) >= 2 /\ accepted[Len(rooms)]) =>
        LET c == Mid(rooms[PrevAccepted(Len(rooms))])
            d == Mid(rooms[Len(rooms)])
        IN  \/ IsFloor(HRun(c[1], d[1], c[2]) \cup VRun(c[2], d[2], d[1]))
            \/ IsFloor(VRun(c[2], d[2], c[1]) \cup HRun(c[1], d[1], d[2]))

Interior(r) == {t \in (r.x1 + 1 .. r.x2 - 1) \X (r.y1 + 1 .. r.y2 - 1) : TRUE}

\* C13: carving is never undone: a floor tile stays floor, and the step that
\* accepts a room leaves the room's interior and, for a room other than the
\* first, both runs of the corridor it carves as floor.
C13_CarvingKept ==
    [][/\ \A t \in Tiles : ~map[t].blocked => (~map'[t].blocked /\ ~map'[t].block_site)
       /\ (pc = "make_map" /\ Len(rooms') = Len(rooms) + 1 /\ accepted'[Len(rooms')]) =>
             /\ IsFloorIn(map', Interior(rooms'[Len(rooms')]))
             /\ rooms # <<>> =>
                  LET c == Mid(rooms[Len(rooms)])
                      d == Mid(rooms'[Len(rooms')])
                  IN  \/ IsFloorIn(map', HRun(c[1], d[1], c[2]) \cup VRun(c[2], d[2], d[1]))
                      \/ IsFloorIn(map', VRun(c[2], d[2], c[1]) \cup HRun(c[1], d[1], d[2]))
      ]_vars

\* make_map's loop has finished with two accepted rooms and a floor tile that
\* lies in no accepted room's interior (a corridor tile).
C13_Witness ==
    /\ pc = "make_map"
    /\ attempt = MAX_ROOMS
    /\ \E j, k \in 1 .. Len(rooms) : j < k /\ accepted[j] /\ accepted[k]
    /\ \E t \in Tiles :
          /\ ~map[t].blocked
          /\ \A k \in 1 .. Len(rooms) : accepted[k] => t \notin Interior(rooms[k])

\* C14: after generation no move with (dx, dy) in {-1,0,1}^2 queries a tile
\* outside the grid: the player stands on a non-blocked tile, every neighbour
\* of every non-blocked tile is inside the grid, and handle_keys never panics.
C14_TargetsInGrid ==
    /\ pc # "panic"
    /\ pc \in {"render", "keys"} =>
          /\ ~map[Pos(objects[PLAYER])].blocked
          /\ \A t \in Tiles : ~map[t].blocked =>
                \A dx, dy \in -1 .. 1 : <<t[1] + dx, t[2] + dy>> \in Tiles

\* The player stood next to the left border and pressed Left.
C14_Witness ==
    /\ pc = "render"
    /\ key = "Left"
    /\ objects[PLAYER].x = 1
    /\ tick_pos = Pos(objects[PLAYER])

NumAccepted == Cardinality({k \in 1 .. Len(accepted) : accepted[k]})

\* C15: make_map makes exactly MAX_ROOMS attempts: every iteration, accepting or
\* rejecting, consumes one attempt and adds one candidate, the loop can always
\* take its next step, it is left only after attempt MAX_ROOMS, and the number of
\* accepted rooms never exceeds the number of attempts.
C15_FixedAttempts ==
    /\ [](pc = "make_map" =>
            /\ attempt = Len(rooms)
            /\ attempt <= MAX_ROOMS
            /\ NumAccepted <= attempt
            /\ attempt < MAX_ROOMS => ENABLED MakeMapIter
            /\ attempt = MAX_ROOMS => ENABLED MainSetup)
    /\ [][pc = "make_map" =>
            \/ pc' = "make_map" /\ attempt' = attempt + 1 /\ Len(rooms') = Len(rooms) + 1
            \/ pc' # "make_map" /\ attempt = MAX_ROOMS]_vars

\* The loop has finished and only the first candidate was accepted.
C15_Witness ==
    /\ pc = "make_map"
    /\ attempt = MAX_ROOMS
    /\ NumAccepted = 1
    /\ NumAccepted < MAX_ROOMS

\* C16: the attempt that rejects a candidate (one the code rejects, or one that
\* overlaps an accepted room) changes no tile and adds or moves no occupant.
C16_RejectedNoEffect ==
    [][(/\ pc = "make_map"
        /\ Len(rooms') = Len(rooms) + 1
        /\ \/ ~accepted'[Len(rooms')]
           \/ \E k \in 1 .. Len(rooms) :
                 accepted[k] /\ Overlap(rooms'[Len(rooms')], rooms[k]))
       => (map' = map /\ objects' = objects)]_vars

\* A candidate was rejected while the dungeon already held a monster.
C16_Witness ==
    /\ pc = "make_map"
    /\ Len(rooms) >= 2
    /\ ~accepted[Len(rooms)]
    /\ NumObjects(objects) >= 2

\* Every rectangle a make_map attempt can draw.
Candidates ==
    {RectNew(x, y, w, h) :
        x \in 0 .. MAP_WIDTH - 1, y \in 0 .. MAP_HEIGHT - 1,
        w \in ROOM_MIN_SIZE .. ROOM_MAX_SIZE, h \in ROOM_MIN_SIZE .. ROOM_MAX_SIZE}

\* C17: generation is determined by its inputs.  The program takes no seed (its
\* draws come from thread_rng() and rand::random()), so the claim says that the
\* outcome of every attempt is fixed by the program's state: there is one
\* candidate room r such that no make_map step appends anything else.
C17_Deterministic ==
    (pc = "make_map" /\ attempt < MAX_ROOMS) =>
        \E r \in Candidates : ~ ENABLED (MakeMapIter /\ rooms' # Append(rooms, r))

\* C18: from the return of make_map onward no two distinct blocking, alive
\* occupants stand on the same tile.
C18_NoStacking ==
    pc \in {"render", "keys", "done"} =>
        \A j, k \in DOMAIN objects :
            (j # k /\ Blocker(objects[j]) /\ Blocker(objects[k]))
                => Pos(objects[j]) # Pos(objects[k])

\* C19: from the return of make_map onward the player stands on a non-blocked
\* tile, and not on its placeholder position (0, 0).
C19_PlayerOnFloor ==
    pc \in {"render", "keys", "done"} =>
        /\ ~map[Pos(objects[PLAYER])].blocked
        /\ Pos(objects[PLAYER]) # <<0, 0>>

\* The player pressed Up against a wall and stayed on its tile.
C19_Witness ==
    /\ pc = "render"
    /\ key = "Up"
    /\ tick_pos = Pos(objects[PLAYER])
    /\ map[<<objects[PLAYER].x, objects[PLAYER].y - 1>>].blocked
    /\ ~map[Pos(objects[PLAYER])].blocked

\* C20: every candidate room lies inside the grid, so no carve addresses a tile
\* outside it; every floor tile has coordinates in [1, MAP_WIDTH-2] x
\* [1, MAP_HEIGHT-2], and every tile of the outer border is a wall.
C20_BorderIsWall ==
    /\ \A k \in 1 .. Len(rooms) :
          /\ 0 <= rooms[k].x1 /\ rooms[k].x2 <= MAP_WIDTH - 1
          /\ 0 <= rooms[k].y1 /\ rooms[k].y2 <= MAP_HEIGHT - 1
    /\ \A t \in Tiles :
          IF 1 <= t[1] /\ t[1] <= MAP_WIDTH - 2 /\ 1 <= t[2] /\ t[2] <= MAP_HEIGHT - 2
          THEN TRUE
          ELSE map[t].blocked /\ map[t].block_site

\* The loop has finished with floor in two opposite corners of the carvable area.
C20_Witness ==
    /\ pc = "make_map"
    /\ attempt = MAX_ROOMS
    /\ ~map[<<1, 1>>].blocked
    /\ ~map[<<MAP_WIDTH - 2, MAP_HEIGHT - 2>>].blocked

=============================================================================
